---------------------------- MODULE Spec2Model ----------------------------
(***************************************************************************)
(* Book Catalog API (src/restapi_106.py): an in-memory dictionary books_db *)
(* from integer id to book record, a counter next_book_id, and five HTTP   *)
(* handlers.  Each handler is an operator from the catalog and the request *)
(* to the catalog after the request and the HTTP response; each action     *)
(* applies one handler to one request.                                     *)
(***************************************************************************)
EXTENDS Integers, Sequences, FiniteSets, TLC

VARIABLES books_db, next_book_id, response, issued, deleted, creates

vars == <<books_db, next_book_id, response, issued, deleted, creates>>

(***************************************************************************)
(* Bounds of the model.                                                    *)
(***************************************************************************)
\* create is not taken once the counter has passed this id
MaxBookId == 3

(***************************************************************************)
(* Values.  None is Python's None, which a BookUpdate field may carry.     *)
(***************************************************************************)
None == "<None>"

Fields == {"title", "author", "isbn", "publication_year", "genre", "available"}

Isbns == {"978-0-06-112008-4", "978-0-452-28423-4", "978-0-452-28424-1"}

\* str.lower() on the genre strings of the model
Lower(s) ==
    CASE s = "Fiction" -> "fiction"
      [] s = "fiction" -> "fiction"
      [] s = "FICTION" -> "fiction"
      [] s = "Dystopian" -> "dystopian"
      [] s = "dystopian" -> "dystopian"
      [] s = "Satire" -> "satire"
      [] s = "" -> ""

SeedBooks ==
    (1 :> [title |-> "To Kill a Mockingbird", author |-> "Harper Lee",
           isbn |-> "978-0-06-112008-4", publication_year |-> 1960,
           genre |-> "Fiction", available |-> TRUE])
 @@ (2 :> [title |-> "1984", author |-> "George Orwell",
           isbn |-> "978-0-452-28423-4", publication_year |-> 1949,
           genre |-> "Dystopian", available |-> TRUE])

SeedNextId == 3

(***************************************************************************)
(* Request inputs.                                                         *)
(***************************************************************************)
\* path parameter book_id: every id the counter can assign, and one beyond
BookIds == 1..(MaxBookId + 1)

\* POST bodies that pass the Book schema: all fields, available optional
BookPayloads ==
    LET full == {[title |-> "Animal Farm", author |-> "George Orwell",
                  isbn |-> i, publication_year |-> 1945,
                  genre |-> "Satire", available |-> FALSE] : i \in Isbns}
        short == {[title |-> "Animal Farm", author |-> "George Orwell",
                   isbn |-> i, publication_year |-> 1945,
                   genre |-> "Satire"] : i \in Isbns}
    IN  full \cup short

\* a request field that may be left out: no entry, or one entry per value
Optional(f, values) == {<<>>} \cup {f :> v : v \in values}

\* PUT bodies that pass the BookUpdate schema: every field is optional, and
\* an Optional[str] field may be given as null.  The bodies of the model
\* carry any subset of isbn, genre and available.
BookUpdates ==
    {i @@ g @@ a :
        i \in Optional("isbn", {"978-0-06-112008-4", None}),
        g \in Optional("genre", {None}),
        a \in Optional("available", {FALSE})}

\* query strings of GET /books
Queries ==
    {g @@ a :
        g \in Optional("genre", {"", "fiction"}),
        a \in Optional("available", {TRUE})}

(***************************************************************************)
(* Helpers for Python dictionaries and the responses.                      *)
(***************************************************************************)
\* d[k] = v on a dictionary
DictSet(d, k, v) == [x \in DOMAIN d \cup {k} |-> IF x = k THEN v ELSE d[x]]

\* variant: the entry stays
DictDel_Keep(d, k) == d

\* del d[k]
DictDel(d, k) == [x \in DOMAIN d \ {k} |-> d[x]]

\* variant: the stored entries win over the supplied ones
DictUpdate_KeepOld(d, u) ==
    [x \in DOMAIN d \cup DOMAIN u |-> IF x \in DOMAIN d THEN d[x] ELSE u[x]]

\* d.update(u): the entries of u replace or extend those of d
DictUpdate(d, u) ==
    [x \in DOMAIN d \cup DOMAIN u |-> IF x \in DOMAIN u THEN u[x] ELSE d[x]]

\* {"id": book_id, **book_data}
WithId(book_id, book_data) == ("id" :> book_id) @@ book_data

\* variant: available defaults to False
model_dump_DefaultFalse(book) ==
    [f \in Fields |-> IF f \in DOMAIN book THEN book[f] ELSE FALSE]

\* Book.model_dump(): the six fields, available defaulting to True
model_dump(book) ==
    [f \in Fields |-> IF f \in DOMAIN book THEN book[f] ELSE TRUE]

\* raise HTTPException(status_code, detail)
HTTPException(op, status_code, detail) ==
    [op |-> op, status |-> status_code, detail |-> detail]

\* the keys of the catalog in insertion order: ids are inserted in
\* increasing order, so this is the increasing order
RECURSIVE Keys(_)
Keys(S) ==
    IF S = {} THEN <<>>
    ELSE LET m == CHOOSE x \in S : \A y \in S : x <= y
         IN  <<m>> \o Keys(S \ {m})

(***************************************************************************)
(* The handlers.  Each returns the catalog and the counter after the       *)
(* request, and the response.                                              *)
(***************************************************************************)
Result(db, next, resp) == [db |-> db, next |-> next, response |-> resp]

\* GET /books
get_all_books(db, next, query) ==
    IF DOMAIN db = {}
    THEN Result(db, next, [op |-> "get_all_books", status |-> 200,
                           message |-> "No books in catalog", books |-> <<>>])
    ELSE
      LET byGenre == "genre" \in DOMAIN query /\ query["genre"] # ""
          crash == byGenre /\ \E k \in DOMAIN db : db[k]["genre"] = None
          keep1 == IF byGenre
                   THEN {k \in DOMAIN db :
                           Lower(db[k]["genre"]) = Lower(query["genre"])}
                   ELSE DOMAIN db
          keep2 == IF "available" \in DOMAIN query
                   THEN {k \in keep1 : db[k]["available"] = query["available"]}
                   ELSE keep1
          ids == Keys(keep2)
          result == [n \in 1..Len(ids) |-> WithId(ids[n], db[ids[n]])]
      IN  IF crash
          THEN \* None has no lower(): the unhandled AttributeError is a 500
               Result(db, next, [op |-> "get_all_books", status |-> 500])
          ELSE Result(db, next, [op |-> "get_all_books", status |-> 200,
                                 total_books |-> Len(result), books |-> result])

\* GET /books/{book_id}
get_book(db, next, book_id) ==
    IF book_id \notin DOMAIN db
    THEN Result(db, next,
                HTTPException("get_book", 404, <<"Book with ID", book_id, "not found">>))
    ELSE Result(db, next, [op |-> "get_book", status |-> 200,
                           book |-> WithId(book_id, db[book_id])])

\* variant: the scan compares titles
isbn_exists_ByTitle(db, book) ==
    \E k \in DOMAIN db : db[k]["title"] = book["title"]

\* the scan of create_book: some stored book has the isbn of the payload
isbn_exists(db, book) ==
    \E k \in DOMAIN db : db[k]["isbn"] = book["isbn"]

\* variant: the id is the size of the catalog plus one
create_book_LenId(db, next, book) ==
    IF isbn_exists(db, book)
    THEN Result(db, next,
                HTTPException("create_book", 400,
                              <<"Book with ISBN", book["isbn"], "already exists">>))
    ELSE
      LET book_id == Cardinality(DOMAIN db) + 1
          db2 == DictSet(db, book_id, model_dump(book))
      IN  Result(db2, next + 1,
                 [op |-> "create_book", status |-> 201,
                  message |-> "Book created successfully",
                  book |-> WithId(book_id, db2[book_id])])

\* variant: the counter is not incremented
create_book_NoIncrement(db, next, book) ==
    IF isbn_exists(db, book)
    THEN Result(db, next,
                HTTPException("create_book", 400,
                              <<"Book with ISBN", book["isbn"], "already exists">>))
    ELSE
      LET book_id == next
          db2 == DictSet(db, book_id, model_dump(book))
      IN  Result(db2, next,
                 [op |-> "create_book", status |-> 201,
                  message |-> "Book created successfully",
                  book |-> WithId(book_id, db2[book_id])])

\* POST /books
create_book(db, next, book) ==
    IF isbn_exists(db, book)
    THEN Result(db, next,
                HTTPException("create_book", 400,
                              <<"Book with ISBN", book["isbn"], "already exists">>))
    ELSE
      LET book_id == next
          db2 == DictSet(db, book_id, model_dump(book))
      IN  Result(db2, next + 1,
                 [op |-> "create_book", status |-> 201,
                  message |-> "Book created successfully",
                  book |-> WithId(book_id, db2[book_id])])

\* variant: a null isbn is not checked
isbn_conflict_Truthy(db, book_id, update_data) ==
    /\ "isbn" \in DOMAIN update_data
    /\ update_data["isbn"] # None
    /\ \E bid \in DOMAIN db :
          bid # book_id /\ db[bid]["isbn"] = update_data["isbn"]

\* variant: the book being updated is scanned too
isbn_conflict_AnyBook(db, book_id, update_data) ==
    /\ "isbn" \in DOMAIN update_data
    /\ \E bid \in DOMAIN db : db[bid]["isbn"] = update_data["isbn"]

\* the scan of update_book: isbn is supplied and another book holds it
isbn_conflict(db, book_id, update_data) ==
    /\ "isbn" \in DOMAIN update_data
    /\ \E bid \in DOMAIN db :
          bid # book_id /\ db[bid]["isbn"] = update_data["isbn"]

\* BookUpdate.model_dump(exclude_unset=True): the supplied fields only
model_dump_exclude_unset(book_update) == book_update

\* PUT /books/{book_id}
update_book(db, next, book_id, book_update) ==
    IF book_id \notin DOMAIN db
    THEN Result(db, next,
                HTTPException("update_book", 404, <<"Book with ID", book_id, "not found">>))
    ELSE
      LET update_data == model_dump_exclude_unset(book_update)
      IN  IF isbn_conflict(db, book_id, update_data)
          THEN Result(db, next,
                      HTTPException("update_book", 400,
                                    <<"ISBN", update_data["isbn"],
                                      "already exists for another book">>))
          ELSE
            LET db2 == DictSet(db, book_id, DictUpdate(db[book_id], update_data))
            IN  Result(db2, next,
                       [op |-> "update_book", status |-> 200,
                        message |-> "Book updated successfully",
                        book |-> WithId(book_id, db2[book_id])])

\* variant: a missing id is answered like a present one
delete_book_Silent(db, next, book_id) ==
    Result(DictDel(db, book_id), next,
           [op |-> "delete_book", status |-> 200,
            message |-> "Book deleted successfully"])

\* DELETE /books/{book_id}
delete_book(db, next, book_id) ==
    IF book_id \notin DOMAIN db
    THEN Result(db, next,
                HTTPException("delete_book", 404, <<"Book with ID", book_id, "not found">>))
    ELSE
      LET deleted_book == db[book_id]
      IN  Result(DictDel(db, book_id), next,
                 [op |-> "delete_book", status |-> 200,
                  message |-> "Book deleted successfully",
                  deleted_book |-> WithId(book_id, deleted_book)])

(***************************************************************************)
(* The state machine: requests are served one at a time.                   *)
(* issued and deleted record the history: the ids pre-loaded or returned   *)
(* by a create, and the ids whose record a delete removed.                 *)
(***************************************************************************)
Init ==
    /\ books_db = SeedBooks
    /\ next_book_id = SeedNextId
    /\ response = [op |-> "startup", status |-> 0]
    /\ issued = DOMAIN SeedBooks
    /\ deleted = {}
    /\ creates = <<>>

Apply(r) ==
    /\ books_db' = r.db
    /\ next_book_id' = r.next
    /\ response' = r.response
    /\ UNCHANGED creates

GetAllBooks ==
    \E query \in Queries :
        /\ Apply(get_all_books(books_db, next_book_id, query))
        /\ UNCHANGED <<issued, deleted>>

GetBook ==
    \E book_id \in BookIds :
        /\ Apply(get_book(books_db, next_book_id, book_id))
        /\ UNCHANGED <<issued, deleted>>

CreateBook ==
    \E book \in BookPayloads :
        LET r == create_book(books_db, next_book_id, book)
        IN  /\ r.next <= MaxBookId + 1
            /\ Apply(r)
            /\ issued' = IF r.response.status = 201
                         THEN issued \cup {r.response.book["id"]}
                         ELSE issued
            /\ UNCHANGED deleted

UpdateBook ==
    \E book_id \in BookIds, book_update \in BookUpdates :
        /\ Apply(update_book(books_db, next_book_id, book_id, book_update))
        /\ UNCHANGED <<issued, deleted>>

DeleteBook ==
    \E book_id \in BookIds :
        LET r == delete_book(books_db, next_book_id, book_id)
        IN  /\ Apply(r)
            /\ deleted' = IF r.response.status = 200
                          THEN deleted \cup {book_id}
                          ELSE deleted
            /\ UNCHANGED issued

Next == GetAllBooks \/ GetBook \/ CreateBook \/ UpdateBook \/ DeleteBook

Spec == Init /\ [][Next]_vars

(***************************************************************************)
(* Two create requests served at the same time.  create_book is a plain    *)
(* def, which the framework runs on worker threads, and it takes no lock:  *)
(* the threads may switch between any two of its statements.  creates      *)
(* holds, for each request, its position in create_book and its locals.    *)
(***************************************************************************)
CreateRequests == {"A", "B"}

\* the isbns of the two requests: one held by a seed record, two new ones
ConcurrentIsbns ==
    {"978-0-06-112008-4", "978-0-452-28424-1", "978-0-14-303943-3"}

ConcurrentPayloads ==
    {[title |-> "Animal Farm", author |-> "George Orwell", isbn |-> i,
      publication_year |-> 1945, genre |-> "Satire"] : i \in ConcurrentIsbns}

\* variant: a record holding the same isbn is replaced
create_store_ReplaceIsbn(db, book_id, book) ==
    LET others == {k \in DOMAIN db : db[k]["isbn"] # book["isbn"]}
    IN  DictSet([k \in others |-> db[k]], book_id, model_dump(book))

\* variant: a key that is taken is not overwritten, the next free one is used
create_store_NoOverwrite(db, book_id, book) ==
    LET free == CHOOSE k \in book_id..(book_id + Cardinality(DOMAIN db)) :
                    /\ k \notin DOMAIN db
                    /\ \A j \in book_id..(k - 1) : j \in DOMAIN db
    IN  DictSet(db, free, model_dump(book))

\* books_db[book_id] = book.model_dump()
create_store(db, book_id, book) == DictSet(db, book_id, model_dump(book))

\* the return statement of create_book; books_db[book_id] raises KeyError,
\* an unhandled 500, if the key is gone
create_response(db, book_id) ==
    IF book_id \in DOMAIN db
    THEN [op |-> "create_book", status |-> 201,
          message |-> "Book created successfully",
          book |-> WithId(book_id, db[book_id])]
    ELSE [op |-> "create_book", status |-> 500]

InitConcurrent ==
    /\ books_db = SeedBooks
    /\ next_book_id = SeedNextId
    /\ response = [op |-> "startup", status |-> 0]
    /\ issued = DOMAIN SeedBooks
    /\ deleted = {}
    /\ \E payloads \in [CreateRequests -> ConcurrentPayloads] :
          creates = [p \in CreateRequests |->
                       [pc |-> "scan", book |-> payloads[p], used |-> 0,
                        book_id |-> 0, counter |-> 0,
                        response |-> [op |-> "create_book", status |-> 0]]]

\* the locals of request p after a step
Locals(p, new) == creates' = [creates EXCEPT ![p] = new]

\* for existing_book in books_db.values(): the iterator notes the size
ScanStart(p) ==
    /\ creates[p].pc = "scan"
    /\ Locals(p, [creates[p] EXCEPT !.pc = "scanning",
                                    !.used = Cardinality(DOMAIN books_db)])
    /\ UNCHANGED <<books_db, next_book_id, response, issued, deleted>>

\* the rest of the loop: a dictionary that changed size under the iterator
\* raises RuntimeError (an unhandled 500), unless the isbn was found
\* before; otherwise the isbn is found (400) or the loop ends
ScanFinish(p) ==
    /\ creates[p].pc = "scanning"
    /\ \E outcome \in {"found", "changed", "clear"} :
          /\ outcome = "found" => isbn_exists(books_db, creates[p].book)
          /\ outcome = "changed" =>
                Cardinality(DOMAIN books_db) # creates[p].used
          /\ outcome = "clear" =>
                /\ ~isbn_exists(books_db, creates[p].book)
                /\ Cardinality(DOMAIN books_db) = creates[p].used
          /\ Locals(p,
                CASE outcome = "found" ->
                       [creates[p] EXCEPT
                          !.pc = "done",
                          !.response =
                             HTTPException("create_book", 400,
                                <<"Book with ISBN", creates[p].book["isbn"],
                                  "already exists">>)]
                  [] outcome = "changed" ->
                       [creates[p] EXCEPT
                          !.pc = "done",
                          !.response = [op |-> "create_book", status |-> 500]]
                  [] outcome = "clear" ->
                       [creates[p] EXCEPT !.pc = "read_id"])
    /\ UNCHANGED <<books_db, next_book_id, response, issued, deleted>>

\* book_id = next_book_id
ReadId(p) ==
    /\ creates[p].pc = "read_id"
    /\ Locals(p, [creates[p] EXCEPT !.pc = "store",
                                    !.book_id = next_book_id])
    /\ UNCHANGED <<books_db, next_book_id, response, issued, deleted>>

\* books_db[book_id] = book.model_dump()
Store(p) ==
    /\ creates[p].pc = "store"
    /\ books_db' = create_store(books_db, creates[p].book_id, creates[p].book)
    /\ Locals(p, [creates[p] EXCEPT !.pc = "load_counter"])
    /\ UNCHANGED <<next_book_id, response, issued, deleted>>

\* next_book_id += 1, the read of the global
LoadCounter(p) ==
    /\ creates[p].pc = "load_counter"
    /\ Locals(p, [creates[p] EXCEPT !.pc = "store_counter",
                                    !.counter = next_book_id])
    /\ UNCHANGED <<books_db, next_book_id, response, issued, deleted>>

\* next_book_id += 1, the write of the global
StoreCounter(p) ==
    /\ creates[p].pc = "store_counter"
    /\ next_book_id' = creates[p].counter + 1
    /\ Locals(p, [creates[p] EXCEPT !.pc = "respond"])
    /\ UNCHANGED <<books_db, response, issued, deleted>>

\* return {"message": ..., "book": {"id": book_id, **books_db[book_id]}}
Respond(p) ==
    /\ creates[p].pc = "respond"
    /\ Locals(p, [creates[p] EXCEPT
                     !.pc = "done",
                     !.response = create_response(books_db, creates[p].book_id)])
    /\ UNCHANGED <<books_db, next_book_id, response, issued, deleted>>

NextConcurrent ==
    \E p \in CreateRequests :
        \/ ScanStart(p)
        \/ ScanFinish(p)
        \/ ReadId(p)
        \/ Store(p)
        \/ LoadCounter(p)
        \/ StoreCounter(p)
        \/ Respond(p)

SpecConcurrent == InitConcurrent /\ [][NextConcurrent]_vars

(***************************************************************************)
(* Properties of the catalog.                                              *)
(***************************************************************************)
\* C1: no two records stored under different ids have the same isbn value,
\* in every state reached by create, update and delete requests; a null
\* isbn written by update counts as a value.
C1_IsbnUnique ==
    \A a \in DOMAIN books_db, b \in DOMAIN books_db :
        a # b => books_db[a]["isbn"] # books_db[b]["isbn"]

\* a record holds a null isbn and an update writing a second null isbn was
\* just refused
C1_Witness ==
    /\ \E k \in DOMAIN books_db : books_db[k]["isbn"] = None
    /\ response["op"] = "update_book"
    /\ response["status"] = 400
    /\ response["detail"][2] = None

\* C2: every successful create returns an id strictly greater than every id
\* pre-loaded or returned by an earlier create, so the id of a deleted
\* record is never assigned again.
C2_IdsNeverReused ==
    \A book \in BookPayloads :
        LET r == create_book(books_db, next_book_id, book)
        IN  r.response["status"] = 201 =>
              /\ \A i \in issued : r.response["book"]["id"] > i
              /\ r.response["book"]["id"] \notin deleted

\* a create has succeeded after a delete removed a record
C2_Witness ==
    /\ response["op"] = "create_book"
    /\ response["status"] = 201
    /\ deleted # {}
    /\ response["book"]["id"] \notin deleted
    /\ response["book"]["id"] \in issued

\* C3: a create whose isbn some record holds fails with 400 and leaves the
\* mapping and the counter as they were, so the next create is answered as
\* it would have been without the failed request.
C3_ConflictChangesNothing ==
    \A book \in BookPayloads :
        (\E k \in DOMAIN books_db : books_db[k]["isbn"] = book["isbn"]) =>
            LET r == create_book(books_db, next_book_id, book)
            IN  /\ r.response["status"] = 400
                /\ r.db = books_db
                /\ r.next = next_book_id
                /\ \A later \in BookPayloads :
                      create_book(r.db, r.next, later)
                        = create_book(books_db, next_book_id, later)

\* a create was just refused for an isbn that a record holds
C3_Witness ==
    /\ response["op"] = "create_book"
    /\ response["status"] = 400
    /\ \E k \in DOMAIN books_db : books_db[k]["isbn"] = response["detail"][2]

\* C4: for every payload whose isbn is not in the catalog create succeeds,
\* and a get on the returned id right after it returns the payload's fields
\* (available true when omitted) with that id, the same record create
\* returned.
C4_CreateThenGet ==
    \A book \in BookPayloads :
        (\A k \in DOMAIN books_db : books_db[k]["isbn"] # book["isbn"]) =>
            LET r == create_book(books_db, next_book_id, book)
                g == get_book(r.db, r.next, r.response["book"]["id"])
            IN  /\ r.response["status"] = 201
                /\ g.response["status"] = 200
                /\ g.response["book"] = r.response["book"]
                /\ DOMAIN g.response["book"] = Fields \cup {"id"}
                /\ \A f \in DOMAIN book : g.response["book"][f] = book[f]
                /\ "available" \notin DOMAIN book =>
                      g.response["book"]["available"] = TRUE

\* a create of a payload without available has answered, and a get on the
\* returned id returns the record of the response, available true
C4_Witness ==
    /\ response["op"] = "create_book"
    /\ response["status"] = 201
    /\ response["book"]["available"] = TRUE
    /\ get_book(books_db, next_book_id, response["book"]["id"]).response["book"]
         = response["book"]

\* C5: a successful create assigns the value the counter had, adds exactly
\* one record under that id, increases the counter by one and leaves every
\* record already in the catalog unchanged.
C5_CreateFrame ==
    \A book \in BookPayloads :
        LET r == create_book(books_db, next_book_id, book)
            id == r.response["book"]["id"]
        IN  r.response["status"] = 201 =>
              /\ id = next_book_id
              /\ id \notin DOMAIN books_db
              /\ DOMAIN r.db = DOMAIN books_db \cup {id}
              /\ r.next = next_book_id + 1
              /\ \A k \in DOMAIN books_db : r.db[k] = books_db[k]

\* a create has answered and the catalog holds the new record next to both
\* seed records
C5_Witness ==
    /\ response["op"] = "create_book"
    /\ response["status"] = 201
    /\ next_book_id = response["book"]["id"] + 1
    /\ DOMAIN books_db = DOMAIN SeedBooks \cup {response["book"]["id"]}

\* C6: a successful update sets exactly the supplied fields to the supplied
\* values and leaves the other fields, the other records and the counter
\* unchanged; the response carries the record as stored; an update that
\* supplies no field succeeds and changes nothing.
C6_UpdateFrame ==
    \A id \in DOMAIN books_db, u \in BookUpdates :
        LET r == update_book(books_db, next_book_id, id, u)
        IN  /\ r.response["status"] = 200 =>
                /\ DOMAIN r.db = DOMAIN books_db
                /\ DOMAIN r.db[id] = Fields
                /\ \A f \in Fields :
                      r.db[id][f] = IF f \in DOMAIN u THEN u[f]
                                    ELSE books_db[id][f]
                /\ \A k \in DOMAIN books_db \ {id} : r.db[k] = books_db[k]
                /\ r.next = next_book_id
                /\ r.response["book"] = WithId(id, r.db[id])
            /\ DOMAIN u = {} =>
                /\ r.response["status"] = 200
                /\ r.db = books_db

\* an update of available alone on id 1 has answered: the record differs
\* from the seed record in available only
C6_Witness ==
    /\ response["op"] = "update_book"
    /\ response["status"] = 200
    /\ 1 \in DOMAIN books_db
    /\ books_db[1] = [SeedBooks[1] EXCEPT !["available"] = FALSE]
    /\ response["book"] = WithId(1, books_db[1])

\* C7: an update of an existing id that supplies isbn fails with 400
\* exactly when a record with a different id holds that isbn; the record's
\* own isbn is accepted; a refused update changes no field of any record.
C7_UpdateConflict ==
    \A id \in DOMAIN books_db, u \in BookUpdates :
        "isbn" \in DOMAIN u =>
            LET r == update_book(books_db, next_book_id, id, u)
                held == \E k \in DOMAIN books_db \ {id} :
                           books_db[k]["isbn"] = u["isbn"]
            IN  /\ r.response["status"] = IF held THEN 400 ELSE 200
                /\ u["isbn"] = books_db[id]["isbn"] => r.response["status"] = 200
                /\ r.response["status"] = 400 =>
                      r.db = books_db /\ r.next = next_book_id

\* an update was just refused for an isbn that a record holds
C7_Witness ==
    /\ response["op"] = "update_book"
    /\ response["status"] = 400
    /\ \E k \in DOMAIN books_db : books_db[k]["isbn"] = response["detail"][2]

\* C8: get, update and delete on an id that is not in the catalog fail with
\* 404 and leave the mapping and the counter unchanged; for update this
\* holds also when the supplied isbn is held by a record.
C8_NotFound ==
    \A id \in BookIds \ DOMAIN books_db :
        LET g == get_book(books_db, next_book_id, id)
            d == delete_book(books_db, next_book_id, id)
        IN  /\ g.response["status"] = 404
            /\ g.db = books_db /\ g.next = next_book_id
            /\ d.response["status"] = 404
            /\ d.db = books_db /\ d.next = next_book_id
            /\ \A u \in BookUpdates :
                  LET r == update_book(books_db, next_book_id, id, u)
                  IN  /\ r.response["status"] = 404
                      /\ r.db = books_db /\ r.next = next_book_id

\* an update of a missing id was answered with 404 while a record holds an
\* isbn that update bodies carry
C8_Witness ==
    /\ response["op"] = "update_book"
    /\ response["status"] = 404
    /\ response["detail"][2] \notin DOMAIN books_db
    /\ \E k \in DOMAIN books_db : books_db[k]["isbn"] = "978-0-06-112008-4"

\* C9: a successful delete removes exactly the record with that id,
\* returns its fields as they were plus the id, and leaves the other
\* records and the counter unchanged; from then on a get of that id fails
\* with 404, whatever requests follow.
C9_DeleteForGood ==
    /\ \A id \in DOMAIN books_db :
          LET r == delete_book(books_db, next_book_id, id)
          IN  /\ r.response["status"] = 200
              /\ r.response["deleted_book"] = WithId(id, books_db[id])
              /\ DOMAIN r.db = DOMAIN books_db \ {id}
              /\ \A k \in DOMAIN r.db : r.db[k] = books_db[k]
              /\ r.next = next_book_id
    /\ \A id \in deleted :
          get_book(books_db, next_book_id, id).response["status"] = 404

\* a record was deleted, a create succeeded later, and a get of the deleted
\* id was just answered with 404
C9_Witness ==
    /\ response["op"] = "get_book"
    /\ response["status"] = 404
    /\ response["detail"][2] \in deleted
    /\ issued # DOMAIN SeedBooks

\* C10: in every reachable catalog state, the empty one included, a list
\* that returns a result returns total_books and books, total_books being
\* the number of entries of books; and after a delete the total_books of an
\* unfiltered list is one less than before it.
C10_ListTotals ==
    /\ (response["op"] = "get_all_books" /\ response["status"] = 200) =>
          /\ {"total_books", "books"} \subseteq DOMAIN response
          /\ response["total_books"] = Len(response["books"])
    /\ \A id \in DOMAIN books_db :
          LET before == get_all_books(books_db, next_book_id, <<>>).response
              r == delete_book(books_db, next_book_id, id)
              after == get_all_books(r.db, r.next, <<>>).response
          IN  /\ "total_books" \in DOMAIN before
              /\ "total_books" \in DOMAIN after
              /\ after["total_books"] = before["total_books"] - 1

\* C11: list has no failure outcome: in every state reached by create,
\* update (a field given as null included) and delete requests, and for
\* every query, list answers 200.
C11_ListNeverFails ==
    /\ response["op"] = "get_all_books" => response["status"] = 200
    /\ \A query \in Queries :
          get_all_books(books_db, next_book_id, query).response["status"] = 200

\* C12: list returns exactly the records that satisfy every supplied
\* filter, each with its id: a supplied genre, the empty string included,
\* keeps the records whose genre equals it ignoring case, a supplied
\* available keeps the records whose available equals it; on the seeded
\* catalog genre "Fiction" returns id 1 only and available true ids 1, 2.
C12_ListFilters ==
    LET Listed(db, query) ==
            LET r == get_all_books(db, next_book_id, query).response
            IN  IF r["status"] = 200
                THEN {r["books"][n] : n \in 1..Len(r["books"])}
                ELSE {}
        Matches(rec, query) ==
            /\ "genre" \in DOMAIN query =>
                  /\ rec["genre"] # None
                  /\ Lower(rec["genre"]) = Lower(query["genre"])
            /\ "available" \in DOMAIN query =>
                  rec["available"] = query["available"]
    IN  /\ \A query \in Queries :
              Listed(books_db, query)
                = {WithId(k, books_db[k]) :
                     k \in {i \in DOMAIN books_db : Matches(books_db[i], query)}}
        /\ Listed(SeedBooks, "genre" :> "Fiction") = {WithId(1, SeedBooks[1])}
        /\ Listed(SeedBooks, "available" :> TRUE)
             = {WithId(1, SeedBooks[1]), WithId(2, SeedBooks[2])}

\* C13: every record of the catalog has exactly the six attributes, each
\* holding a non-null value of its declared type; no update leaves a stored
\* attribute null or missing.
C13_RecordsWellTyped ==
    \A k \in DOMAIN books_db :
        /\ DOMAIN books_db[k] = Fields
        /\ \A f \in {"title", "author", "isbn", "genre"} :
              books_db[k][f] # None
        /\ books_db[k]["publication_year"] \in Int
        /\ books_db[k]["available"] \in BOOLEAN

\* C14: two concurrent creates carrying the same new isbn can both pass
\* the duplicate scan; whenever both have answered 201 under different ids,
\* both records are in the catalog with that same isbn.
C14_BothCreatesStored ==
    LET a == creates["A"]
        b == creates["B"]
    IN  (/\ a.pc = "done" /\ b.pc = "done"
         /\ a.response["status"] = 201 /\ b.response["status"] = 201
         /\ a.book["isbn"] = b.book["isbn"]
         /\ a.book_id # b.book_id) =>
            /\ {a.book_id, b.book_id} \subseteq DOMAIN books_db
            /\ books_db[a.book_id]["isbn"] = a.book["isbn"]
            /\ books_db[b.book_id]["isbn"] = a.book["isbn"]

\* both requests carried the same isbn, which no seed record holds, both
\* answered 201, and two records of the catalog hold that isbn
C14_Witness ==
    LET a == creates["A"]
        b == creates["B"]
    IN  /\ a.pc = "done" /\ b.pc = "done"
        /\ a.response["status"] = 201 /\ b.response["status"] = 201
        /\ a.book["isbn"] = b.book["isbn"]
        /\ \A k \in DOMAIN SeedBooks : SeedBooks[k]["isbn"] # a.book["isbn"]
        /\ \E i \in DOMAIN books_db, j \in DOMAIN books_db :
              /\ i # j
              /\ books_db[i]["isbn"] = a.book["isbn"]
              /\ books_db[j]["isbn"] = a.book["isbn"]

\* C15: two concurrent creates with different new isbns can read the same
\* counter value; whenever both have done so and answered 201, both report
\* that one id and only one of the two records is in the catalog.
C15_SameIdOneRecord ==
    LET a == creates["A"]
        b == creates["B"]
        kept == {k \in DOMAIN books_db :
                   books_db[k]["isbn"] \in {a.book["isbn"], b.book["isbn"]}}
    IN  (/\ a.pc = "done" /\ b.pc = "done"
         /\ a.response["status"] = 201 /\ b.response["status"] = 201
         /\ a.book["isbn"] # b.book["isbn"]
         /\ a.book_id = b.book_id) =>
            /\ a.response["book"]["id"] = a.book_id
            /\ b.response["book"]["id"] = a.book_id
            /\ DOMAIN books_db = DOMAIN SeedBooks \cup {a.book_id}
            /\ kept = {a.book_id}

\* the two requests carried different isbns, both answered 201 with the
\* same id, and the catalog holds one record more than the seed
C15_Witness ==
    LET a == creates["A"]
        b == creates["B"]
    IN  /\ a.pc = "done" /\ b.pc = "done"
        /\ a.response["status"] = 201 /\ b.response["status"] = 201
        /\ a.book["isbn"] # b.book["isbn"]
        /\ a.response["book"]["id"] = b.response["book"]["id"]
        /\ Cardinality(DOMAIN books_db) = Cardinality(DOMAIN SeedBooks) + 1

=============================================================================
